---- MODULE Spec2Model ----
(***************************************************************************)
(* The documentation aggregation of scripts/aggregate.ts: run() empties    *)
(* the output root and, for each RepoSpec of REPOS in order, copies the    *)
(* repository's documents into projects/<short name>, injects              *)
(* custom_edit_url into the front matter of every .md/.mdx file and adds   *)
(* an index.md when the directory has neither index.md nor README.md.      *)
(*                                                                         *)
(* Representation.  A string is a sequence of tokens; the separators "/"   *)
(* and "\" are tokens of their own, so that split, join, normalize and     *)
(* replace are computed on it.  A file-system path is a sequence of        *)
(* segment names.  A file's content is the sequence of its lines (the      *)
(* content split at "\n", so "" is one blank line and a content ending     *)
(* with "\n" ends with a blank line); a line is a record [t, k, v].        *)
(***************************************************************************)
EXTENDS Naturals, Sequences, FiniteSets, TLC

\* ------------------------------------------------------------------------
\* Strings
\* ------------------------------------------------------------------------

SEP == "/"

BSL == "\\"

\* s.split(sep): the segments of s between the separator tokens
RECURSIVE SplitOn(_, _)
SplitOn(s, sep) ==
    IF s = <<>> THEN << <<>> >>
    ELSE LET rest == SplitOn(Tail(s), sep)
         IN  IF Head(s) = sep
             THEN << <<>> >> \o rest
             ELSE << <<Head(s)>> \o Head(rest) >> \o Tail(rest)

\* segs.join(sep)
RECURSIVE JoinWith(_, _)
JoinWith(segs, sep) ==
    IF segs = <<>> THEN <<>>
    ELSE IF Len(segs) = 1 THEN Head(segs)
    ELSE Head(segs) \o <<sep>> \o JoinWith(Tail(segs), sep)

\* node:path normalizeString(path, allowAboveRoot, '/'): resolves "." and ".."
RECURSIVE NormalizeSegs(_, _, _)
NormalizeSegs(segs, acc, allowAboveRoot) ==
    IF segs = <<>> THEN acc
    ELSE LET s == Head(segs)
             rest == Tail(segs)
         IN  IF s = <<>> \/ s = <<".">>
             THEN NormalizeSegs(rest, acc, allowAboveRoot)
             ELSE IF s = <<"..">>
             THEN IF acc # <<>> /\ acc[Len(acc)] # <<"..">>
                  THEN NormalizeSegs(rest, SubSeq(acc, 1, Len(acc) - 1), allowAboveRoot)
                  ELSE IF allowAboveRoot
                  THEN NormalizeSegs(rest, Append(acc, s), allowAboveRoot)
                  ELSE NormalizeSegs(rest, acc, allowAboveRoot)
             ELSE NormalizeSegs(rest, Append(acc, s), allowAboveRoot)

\* path.posix.normalize(p)
PosixNormalize(p) ==
    IF p = <<>> THEN <<".">>
    ELSE LET isAbsolute == p[1] = SEP
             trailingSeparator == p[Len(p)] = SEP
             body == JoinWith(NormalizeSegs(SplitOn(p, SEP), <<>>, ~isAbsolute), SEP)
         IN  IF body = <<>>
             THEN IF isAbsolute THEN <<SEP>>
                  ELSE IF trailingSeparator THEN <<".", SEP>> ELSE <<".">>
             ELSE (IF isAbsolute THEN <<SEP>> ELSE <<>>) \o body
                  \o (IF trailingSeparator THEN <<SEP>> ELSE <<>>)

\* path.posix.join(a, b): the non-empty arguments joined with "/", normalized
PosixJoin(a, b) ==
    IF a = <<>> THEN PosixNormalize(b)
    ELSE IF b = <<>> THEN PosixNormalize(a)
    ELSE PosixNormalize(a \o <<SEP>> \o b)

\* ReplaceBackslashes that replaces nothing
KeepBackslashes(s) == s

\* s.replace(/\\/g, '/')
ReplaceBackslashes(s) == [n \in 1..Len(s) |-> IF s[n] = BSL THEN SEP ELSE s[n]]

\* a file name with a backslash in it, as a POSIX host allows
BackslashName == "notes\\api.md"

\* the characters of a file name
NameString(name) ==
    CASE name = BackslashName -> <<"notes", BSL, "api.md">>
      [] name = "building.md" -> <<"build", "ing.md">>
      [] name = "distance.md" -> <<"dist", "ance.md">>
      [] name = ".gitignore" -> <<".git", "ignore">>
      [] OTHER -> <<name>>

\* the relative path globby reports for a file: its segments joined with "/"
RelString(path) == JoinWith([n \in 1..Len(path) |-> NameString(path[n])], SEP)

\* ------------------------------------------------------------------------
\* Lines, front matter (gray-matter)
\* ------------------------------------------------------------------------

\* the line "---"
Delim == [t |-> "delim", k |-> "", v |-> <<>>]

\* an empty line
BlankLine == [t |-> "blank", k |-> "", v |-> <<>>]

\* a YAML line "k: v"
KV(k, v) == [t |-> "kv", k |-> k, v |-> v]

\* a YAML line js-yaml rejects, such as "k: [a"
BadYaml == [t |-> "bad", k |-> "", v |-> <<>>]

\* a markdown heading "# title"
H1(title) == [t |-> "h1", k |-> title, v |-> <<>>]

\* a line of text; v holds a string the text quotes
Text(k, v) == [t |-> "text", k |-> k, v |-> v]

\* YAML null, and JavaScript's undefined
NullValue == <<"<null>">>

Undefined == <<"<undefined>">>

EditUrlKey == "custom_edit_url"

\* data[k]
Lookup(data, k) ==
    IF \E n \in 1..Len(data) : data[n].k = k
    THEN data[CHOOSE n \in 1..Len(data) : data[n].k = k].v
    ELSE Undefined

HasKey(data, k) == \E n \in 1..Len(data) : data[n].k = k

\* Object.assign({}, base, over): base's keys in their order, over's values
\* winning, then over's new keys in their order
Assign(base, over) ==
    [n \in 1..Len(base) |->
        IF HasKey(over, base[n].k)
        THEN [k |-> base[n].k, v |-> Lookup(over, base[n].k)]
        ELSE base[n]]
    \o SelectSeq(over, LAMBDA e : ~HasKey(base, e.k))

\* yaml.safeLoad of a front-matter block: [ok, data]; ok = FALSE is a throw
ParseYaml(block) ==
    LET lines == SelectSeq(block, LAMBDA l : l.t \notin {"blank", "h1"})
        isMapping == \A n \in 1..Len(lines) : lines[n].t = "kv"
        isScalar == lines # <<>> /\ \A n \in 1..Len(lines) : lines[n].t = "text"
        duplicated == \E m, n \in 1..Len(lines) : m # n /\ lines[m].k = lines[n].k
    IN  IF isMapping /\ ~duplicated
        THEN [ok |-> TRUE, data |-> [n \in 1..Len(lines) |-> [k |-> lines[n].k, v |-> lines[n].v]]]
        ELSE IF isScalar
        THEN [ok |-> TRUE, data |-> <<[k |-> "0", v |-> <<lines[1].k>>]>>]
        ELSE [ok |-> FALSE, data |-> <<>>]

\* matter(raw): [ok, data, content]; ok = FALSE is a throw
Matter(raw) ==
    IF raw = <<>> \/ raw[1].t # "delim"
    THEN [ok |-> TRUE, data |-> <<>>, content |-> raw]
    ELSE LET closes == {n \in 2..Len(raw) : raw[n].t = "delim"}
             close == IF closes = {} THEN Len(raw) + 1
                      ELSE CHOOSE n \in closes : \A m \in closes : n <= m
             yaml == ParseYaml(SubSeq(raw, 2, close - 1))
             content == IF close >= Len(raw) THEN <<BlankLine>>
                        ELSE SubSeq(raw, close + 1, Len(raw))
         IN  [ok |-> yaml.ok, data |-> yaml.data, content |-> content]

\* content.trimStart()
RECURSIVE TrimStart(_)
TrimStart(content) ==
    IF content = <<>> THEN <<BlankLine>>
    ELSE IF Head(content).t = "blank" THEN TrimStart(Tail(content))
    ELSE content

\* content + '\n'
AddNewline(content) == Append(content, BlankLine)

\* gray-matter's newline(str): str, ending with "\n"
Newline(content) ==
    IF Len(content) >= 2 /\ content[Len(content)].t = "blank" THEN content
    ELSE Append(content, BlankLine)

\* yaml.safeDump(data)
DumpYaml(data) == [n \in 1..Len(data) |-> KV(data[n].k, data[n].v)]

\* gray-matter's stringify(file, data)
Stringify(file, data) ==
    LET all == Assign(file.data, data)
    IN  IF all = <<>> THEN Newline(file.content)
        ELSE <<Delim>> \o DumpYaml(all) \o <<Delim>> \o Newline(file.content)

\* matter.stringify(content, data): parses the content string, then
\* stringifies: [ok, raw]
MatterStringify(content, data) ==
    LET file == Matter(content)
    IN  IF file.ok THEN [ok |-> TRUE, raw |-> Stringify(file, data)]
        ELSE [ok |-> FALSE, raw |-> <<>>]

\* ------------------------------------------------------------------------
\* The RepoSpec table and the edit URL
\* ------------------------------------------------------------------------

\* type RepoSpec = {repo, local, docsDir?, branch?}
RepoSpec(name, docsDir) ==
    [repo |-> <<"peers-app", SEP, name>>, local |-> <<"_sources", name>>,
     docsDir |-> docsDir, branch |-> <<"main">>]

\* const REPOS: RepoSpec[]
REPOS ==
    << RepoSpec("peers-sdk", <<"docs">>),
       RepoSpec("peers-ui", <<".">>),
       RepoSpec("peers-host", <<".">>),
       RepoSpec("peers-electron", <<".">>),
       RepoSpec("peers-react-native", <<".">>) >>

\* a RepoSpec that leaves the optional docsDir and branch out
BareRepoSpec == [repo |-> <<"peers-app", SEP, "peers-docs">>, local |-> <<"_sources", "peers-docs">>]

\* a RepoSpec of another branch
DevRepoSpec ==
    [repo |-> <<"peers-app", SEP, "peers-ui">>, local |-> <<"_sources", "peers-ui">>,
     docsDir |-> <<".">>, branch |-> <<"dev">>]

\* r.docsDir ?? 'docs'
DocsDir(r) == IF "docsDir" \in DOMAIN r THEN r.docsDir ELSE <<"docs">>

\* r.docsDir === '.'
IsRootDocs(r) == "docsDir" \in DOMAIN r /\ r.docsDir = <<".">>

\* r.branch ?? 'main'
Branch(r) == IF "branch" \in DOMAIN r THEN r.branch ELSE <<"main">>

\* r.repo.split('/')[1]
ShortName(r) == SplitOn(r.repo, SEP)[2][1]

\* the string `https://github.com/`
GitHub == <<"https:", SEP, SEP, "github.com", SEP>>

\* ComputeEditUrl with the docs directory left out of the path
ComputeEditUrlWithoutDocsDir(r, rel) ==
    GitHub \o r.repo \o <<SEP, "edit", SEP>> \o Branch(r) \o <<SEP>> \o ReplaceBackslashes(rel)

\* sourceRelPath and custom of run(), for the relative path string rel
ComputeEditUrl(r, rel) ==
    LET sourceRelPath == IF IsRootDocs(r) THEN rel ELSE PosixJoin(DocsDir(r), rel)
    IN  GitHub \o r.repo \o <<SEP, "edit", SEP>> \o Branch(r) \o <<SEP>>
        \o ReplaceBackslashes(sourceRelPath)

\* the custom_edit_url of the index run() adds
RepoUrl(r) == GitHub \o r.repo

\* InjectedData that sets custom_edit_url whatever the document has
InjectedDataAlwaysComputed(data, custom) == Assign(data, <<[k |-> EditUrlKey, v |-> custom]>>)

\* the data run() writes: fm.data with custom_edit_url set unless it has one
InjectedData(data, custom) ==
    LET existing == Lookup(data, EditUrlKey)
    IN  Assign(data, <<[k |-> EditUrlKey,
                        v |-> IF existing \in {Undefined, NullValue} THEN custom ELSE existing]>>)

\* InjectedFile for a file the loop visits twice: what it wrote is read and
\* written again
InjectedFileTwice(r, rel, raw) ==
    LET fm == Matter(raw)
        once == IF ~fm.ok THEN [ok |-> FALSE, raw |-> <<>>]
                ELSE MatterStringify(AddNewline(TrimStart(fm.content)),
                                     InjectedData(fm.data, ComputeEditUrl(r, RelString(rel))))
        again == Matter(once.raw)
    IN  IF ~once.ok \/ ~again.ok THEN [ok |-> FALSE, raw |-> <<>>]
        ELSE MatterStringify(AddNewline(TrimStart(again.content)),
                             InjectedData(again.data, ComputeEditUrl(r, RelString(rel))))

\* the content run() writes for a file read as raw: [ok, raw]
InjectedFile(r, rel, raw) ==
    LET fm == Matter(raw)
    IN  IF ~fm.ok THEN [ok |-> FALSE, raw |-> <<>>]
        ELSE MatterStringify(AddNewline(TrimStart(fm.content)),
                             InjectedData(fm.data, ComputeEditUrl(r, RelString(rel))))

\* IndexFile with the edit URL of index.md in place of the repository's URL
IndexFileWithEditUrl(r) ==
    MatterStringify(
        <<H1(ShortName(r)), BlankLine,
          Text("Project documentation aggregated from", r.repo), BlankLine>>,
        <<[k |-> EditUrlKey, v |-> ComputeEditUrl(r, <<"index.md">>)]>>)

\* the index.md run() adds: [ok, raw]
IndexFile(r) ==
    MatterStringify(
        <<H1(ShortName(r)), BlankLine,
          Text("Project documentation aggregated from", r.repo), BlankLine>>,
        <<[k |-> EditUrlKey, v |-> RepoUrl(r)]>>)

\* ------------------------------------------------------------------------
\* File names, globby
\* ------------------------------------------------------------------------

MdNames == {"README.md", "index.md", "other.md", "devices.md", "api.md", "orm.md", "z.md",
            "x.md", ".notes.md", BackslashName}

MdxNames == {"guide.mdx", "index.mdx"}

\* names that begin with a period
DotNames == {".notes.md", ".hid"}

\* whether one path segment matches one pattern segment (dot: false)
SegMatch(pat, name) ==
    CASE pat = "*" -> name \notin DotNames
      [] pat = "*.md" -> name \in MdNames /\ name \notin DotNames
      [] pat = "*.mdx" -> name \in MdxNames /\ name \notin DotNames
      [] OTHER -> name = pat

\* whether a relative path matches a pattern, given as its segments
RECURSIVE GlobMatch(_, _)
GlobMatch(pat, path) ==
    IF pat = <<>> THEN path = <<>>
    ELSE IF Head(pat) = "**"
    THEN \/ GlobMatch(Tail(pat), path)
         \/ path # <<>> /\ Head(path) \notin DotNames /\ GlobMatch(pat, Tail(path))
    ELSE path # <<>> /\ SegMatch(Head(pat), Head(path)) /\ GlobMatch(Tail(pat), Tail(path))

\* globby(patterns, {cwd}): the files (paths relative to cwd) matching a pattern
Globby(patterns, files) == {p \in files : \E pat \in patterns : GlobMatch(pat, p)}

\* MarkdownPatterns that take every file of the top level
EveryFilePatterns == {<<"*">>}

\* ['*.md', '*.mdx']
MarkdownPatterns == {<<"*.md">>, <<"*.mdx">>}

\* DocPatterns without the two directory patterns
DocPatternsWithoutDocs == {<<"*.md">>, <<"CLAUDE.md">>}

\* ['docs/**/*', 'documentation/**/*', '*.md', 'CLAUDE.md']
DocPatterns == {<<"docs", "**", "*">>, <<"documentation", "**", "*">>, <<"*.md">>, <<"CLAUDE.md">>}

\* ['**/*.md', '**/*.mdx']
InjectPatterns == {<<"**", "*.md">>, <<"**", "*.mdx">>}

\* ['index.md', 'README.md']
IndexCandidates == {"index.md", "README.md"}

\* ------------------------------------------------------------------------
\* File systems
\* ------------------------------------------------------------------------

EmptyFS == [p \in {} |-> <<>>]

IsPrefix(pre, path) == Len(pre) <= Len(path) /\ SubSeq(path, 1, Len(pre)) = pre

\* the paths of files below directory dir, relative to it
Below(files, dir) ==
    {SubSeq(p, Len(dir) + 1, Len(p)) : p \in {q \in files : IsPrefix(dir, q) /\ q # dir}}

\* the directories the files of a tree lie in
DirsOf(files) == UNION {{SubSeq(p, 1, n) : n \in 0..(Len(p) - 1)} : p \in files}

\* const OUT_ROOT = 'projects'; the paths of the output tree are relative to it
OUT_ROOT == <<"projects">>

\* path.join(r.local, r.docsDir ?? 'docs'), relative to r.local
SrcDocs(r) ==
    LET norm == PosixNormalize(DocsDir(r))
    IN  IF norm = <<".">> THEN <<>>
        ELSE [n \in 1..Len(SplitOn(norm, SEP)) |-> SplitOn(norm, SEP)[n][1]]

\* the output directory named after the owner of the repository
OutDirByOwner(r) == <<r.repo[1]>>

\* path.join(OUT_ROOT, r.repo.split('/')[1]), relative to OUT_ROOT
OutDir(r) == <<ShortName(r)>>

\* SrcDocsExists without the check
SrcDocsExistsAlways(r, tree) == TRUE

\* fse.existsSync(srcDocs) for the source tree of a repository
SrcDocsExists(r, tree) ==
    /\ tree.exists
    /\ SrcDocs(r) \in {<<>>} \cup tree.dirs \cup DirsOf(DOMAIN tree.files)

\* the files the two passes over a root-level repository copy (paths in srcDocs)
RootSelection(files) == Globby(MarkdownPatterns, files) \cup Globby(DocPatterns, files)

\* Selected that takes only the files directly in a dedicated docs directory
SelectedShallow(r, tree) ==
    IF IsRootDocs(r) THEN RootSelection(Below(DOMAIN tree.files, SrcDocs(r)))
    ELSE {p \in Below(DOMAIN tree.files, SrcDocs(r)) : Len(p) = 1}

\* the files run() copies for a repository: paths relative to srcDocs
Selected(r, tree) ==
    IF IsRootDocs(r) THEN RootSelection(Below(DOMAIN tree.files, SrcDocs(r)))
    ELSE Below(DOMAIN tree.files, SrcDocs(r))

\* the output tree after fse.copy of the files sel of srcDocs: fse.copy overwrites
CopyFiles(r, tree, fs, sel) ==
    LET new == {OutDir(r) \o p : p \in sel}
    IN  [q \in DOMAIN fs \cup new |->
            IF q \in new
            THEN tree.files[SrcDocs(r) \o SubSeq(q, 2, Len(q))]
            ELSE fs[q]]

\* the output tree after the copy step
CopyDocs(r, tree, fs) == CopyFiles(r, tree, fs, Selected(r, tree))

\* globby(['**/*.md', '**/*.mdx'], {cwd: out})
InjectTargets(r, fs) == Globby(InjectPatterns, Below(DOMAIN fs, OutDir(r)))

\* HasIndex that is content with any file in the directory
HasIndexAnyFile(r, fs) == Below(DOMAIN fs, OutDir(r)) # {}

\* indexCandidates.some(n => fse.existsSync(path.join(out, n)))
HasIndex(r, fs) == \E n \in IndexCandidates : OutDir(r) \o <<n>> \in DOMAIN fs

\* EmptyDir that removes nothing
EmptyDirKeepsAll(fs) == fs

\* EmptyDir that removes the files directly in the directory and keeps its subdirectories
EmptyDirShallow(fs) == [p \in {q \in DOMAIN fs : Len(q) > 1} |-> fs[p]]

\* fse.emptyDir(OUT_ROOT)
EmptyDir(fs) == EmptyFS

\* ------------------------------------------------------------------------
\* The run
\* ------------------------------------------------------------------------

VARIABLES
    repos,      \* the RepoSpec table
    src,        \* src[i]: the source tree of repos[i]: [exists, dirs, files]
    out,        \* the files below OUT_ROOT: path -> content
    outDirs,    \* the directories below OUT_ROOT that were made as such
    pc,         \* NotStarted, ClearingOutput, ProcessingRepo, Done, Aborted
    idx,        \* the index of the RepoSpec the loop is at
    step,       \* within ProcessingRepo: check, copy, inject, index
    todo,       \* the files the injection loop has still to visit
    warnings,   \* the indexes of the repos console.warn reported
    exitCode,   \* the exit status of the process
    runs,       \* how many times the script was started
    maxRuns,    \* how many times it is going to be started
    before,     \* history: the output tree when this run started
    written,    \* history: the paths this run wrote
    injected,   \* history: out path -> what the injection loop read and wrote there
    added,      \* history: the index files this run added
    prevOut,    \* history: the output tree the previous run left
    prevPc,     \* history: how the previous run ended
    env,        \* process.env.OUT_ROOT when the script starts
    error,      \* the rejection of a file-system call of this run, if any
    localRepos, \* syncLocalRepos: localRepos[i]: the checkout at r.localSource: [exists, files]
    sources,    \* syncLocalRepos: the paths of the files below SOURCES_ROOT
    syncPc,     \* syncLocalRepos: Off, NotStarted, Copying, Done, Failed
    syncIdx,    \* syncLocalRepos: the index of the RepoSpec the loop is at
    content,    \* fixMdxCodeBlocks: the lines of the file as read
    file,       \* fixMdxCodeBlocks: the lines of the file on disk
    lines,      \* fixMdxCodeBlocks: the array the loop works on
    fixI,       \* fixMdxCodeBlocks: the loop index i, counted from 1
    inCodeBlock, \* fixMdxCodeBlocks: whether the loop is between two fence lines
    modified,   \* fixMdxCodeBlocks: whether the loop inserted lines
    fixPc       \* fixMdxCodeBlocks: Off, Scanning, Done, Failed

\* the variables of run()
runVars == <<repos, src, out, outDirs, pc, idx, step, todo, warnings, exitCode, runs, maxRuns,
             before, written, injected, added, prevOut, prevPc, env, error>>

\* the variables of syncLocalRepos()
syncVars == <<localRepos, sources, syncPc, syncIdx>>

\* the variables of fixMdxCodeBlocks()
fixVars == <<content, file, lines, fixI, inCodeBlock, modified, fixPc>>

vars == <<repos, src, out, outDirs, pc, idx, step, todo, warnings, exitCode, runs, maxRuns,
          before, written, injected, added, prevOut, prevPc, env, error, syncVars, fixVars>>

\* syncLocalRepos() is not running
SyncOff ==
    /\ localRepos = <<>>
    /\ sources = {}
    /\ syncPc = "Off"
    /\ syncIdx = 1

\* fixMdxCodeBlocks() is not running
FixOff ==
    /\ content = <<>>
    /\ file = <<>>
    /\ lines = <<>>
    /\ fixI = 1
    /\ inCodeBlock = FALSE
    /\ modified = FALSE
    /\ fixPc = "Off"

\* ------------------------------------------------------------------------
\* Inputs: source trees, earlier output
\* ------------------------------------------------------------------------

\* the most files a source tree holds
MaxFiles == 2

\* the most times the script is started
MaxRuns == 2

\* process.env.OUT_ROOT is not set
NoOverride == <<>>

\* the values of process.env.OUT_ROOT: not set, or the directory the tests name
Overrides == {NoOverride, <<"test-projects">>}

\* no file-system call of the run was rejected
NoError == [code |-> "none", repo |-> 0, at |-> "none"]

\* the codes a file-system call is rejected with: path not found, and EACCES
\* for every other (permission, disk full, busy)
ErrorCodes == {"ENOENT", "EACCES"}

HandUrl == <<"https:", SEP, SEP, "example.org", SEP, "edit">>

\* a document without front matter
Plain == <<H1("Title"), Text("Body", <<>>)>>

\* a document without front matter that starts with a blank line
LeadingBlank == <<BlankLine, H1("Title")>>

\* front matter without custom_edit_url
Titled == <<Delim, KV("title", <<"T">>), Delim, BlankLine, H1("Title")>>

\* front matter with a hand-written custom_edit_url
WithUrl == <<Delim, KV(EditUrlKey, HandUrl), KV("title", <<"T">>), Delim, H1("Title")>>

\* front matter with "custom_edit_url: null"
WithNull == <<Delim, KV(EditUrlKey, NullValue), Delim, H1("Title")>>

\* front matter that is not YAML
Malformed == <<Delim, BadYaml, Delim, H1("Title")>>

\* front matter, then a body that starts with a rule, a "Note: ..." line and a rule
RuledBody ==
    <<Delim, KV("title", <<"T">>), Delim, Delim, KV("Note", <<"N">>), Delim, H1("Title")>>

MdContents == {Plain, LeadingBlank, Titled, WithUrl, WithNull, Malformed, RuledBody}

\* the content of a file that is no document
Blob == <<Text("<binary>", <<>>)>>

IsMarkdown(path) == path # <<>> /\ path[Len(path)] \in MdNames \cup MdxNames

RootPaths ==
    {<<"README.md">>, <<"other.md">>, <<"guide.mdx">>, <<"logo.png">>, <<".notes.md">>,
     <<"docs", "api.md">>, <<"docs", "img.png">>, <<"lib", "z.md">>}

DocsPaths ==
    {<<"README.md">>, <<"docs", "index.md">>, <<"docs", "devices.md">>,
     <<"docs", "data", "orm.md">>, <<"docs", "img.png">>, <<"docs", ".hid", "x.md">>}

\* the trees of at most n files at the paths of universe
FileSets(universe, n) ==
    UNION {{f \in [P -> MdContents \cup {Blob}] : \A p \in P : (f[p] = Blob) <=> ~IsMarkdown(p)}
           : P \in {Q \in SUBSET universe : Cardinality(Q) <= n}}

AbsentTree == [exists |-> FALSE, dirs |-> {}, files |-> EmptyFS]

PathsFor(r) ==
    IF r = BareRepoSpec THEN {<<"docs", "index.md">>, <<"docs", "devices.md">>}
    ELSE IF r = DevRepoSpec
    THEN {<<"README.md">>, <<"other.md">>, <<"index.mdx">>, <<BackslashName>>}
    ELSE IF IsRootDocs(r) THEN RootPaths ELSE DocsPaths

\* the source trees of the one repository of a one-line table
RichTrees(r) ==
    {AbsentTree} \cup
    {t \in [exists : {TRUE}, dirs : {{}, {<<"docs">>}}, files : FileSets(PathsFor(r), MaxFiles)] :
        t.dirs = {} \/ (~IsRootDocs(r) /\ <<"docs">> \notin DirsOf(DOMAIN t.files))}

\* a small source tree of a repository of REPOS
SmallTree(r, c) ==
    IF c = "absent" THEN AbsentTree
    ELSE IF c = "hidden"
    THEN [exists |-> TRUE, dirs |-> {},
          files |-> [p \in {SrcDocs(r) \o <<"README.md">>, SrcDocs(r) \o <<".hid", "x.md">>}
                     |-> Plain]]
    ELSE [exists |-> TRUE, dirs |-> {},
          files |-> [p \in {SrcDocs(r) \o <<IF c = "readme" THEN "README.md" ELSE "other.md">>}
                     |-> IF c = "bad" THEN Malformed ELSE Plain]]

\* what an earlier run, of an older table, left below OUT_ROOT
StaleOut ==
    [p \in {<<"peers-old", "README.md">>, <<"peers-ui", "stale.md">>} |->
        <<Delim, KV(EditUrlKey, HandUrl), Delim, H1("Title"), BlankLine>>]

RunStart(table, trees, fs, dirs, n, override) ==
    /\ repos = table
    /\ src = trees
    /\ out = fs
    /\ outDirs = dirs
    /\ maxRuns = n
    /\ pc = "NotStarted"
    /\ idx = 1
    /\ step = "copy"
    /\ todo = {}
    /\ warnings = <<>>
    /\ exitCode = 0
    /\ runs = 1
    /\ before = fs
    /\ written = {}
    /\ injected = EmptyFS
    /\ added = {}
    /\ prevOut = EmptyFS
    /\ prevPc = "none"
    /\ env = override
    /\ error = NoError

\* before run() is called, the other scripts not running
Start(table, trees, fs, dirs, n, override) ==
    /\ RunStart(table, trees, fs, dirs, n, override)
    /\ SyncOff
    /\ FixOff

\* a table of one repository, any source tree of at most MaxFiles files; the
\* tables the tests put in place of REPOS run with and without OUT_ROOT set
InitDocs ==
    \E r \in {REPOS[1], REPOS[2], BareRepoSpec, DevRepoSpec} :
        \E t \in RichTrees(r) :
            \E o \in (IF r \in {BareRepoSpec, DevRepoSpec} THEN Overrides ELSE {NoOverride}) :
                Start(<<r>>, <<t>>, EmptyFS, {}, MaxRuns, o)

\* the table REPOS, each repository absent or small, over an empty or a stale output
InitRepos ==
    \E c \in [1..Len(REPOS) -> {"absent", "readme", "other", "bad", "hidden"}] :
        \E fs \in {EmptyFS, StaleOut} :
            /\ \A i \in 1..Len(REPOS) : c[i] = "hidden" => ~IsRootDocs(REPOS[i])
            /\ Start(REPOS, [i \in 1..Len(REPOS) |-> SmallTree(REPOS[i], c[i])],
                     fs, DirsOf(DOMAIN fs) \ {<<>>}, MaxRuns, NoOverride)

Init == InitDocs \/ InitRepos

\* a RepoSpec of another owner's repository with the short name of REPOS[2]
ForkRepoSpec ==
    [repo |-> <<"peers-fork", SEP, "peers-ui">>, local |-> <<"_sources", "peers-ui-fork">>,
     docsDir |-> <<".">>, branch |-> <<"main">>]

\* a table of two repositories with distinct identifiers and one short name
ForkTable == <<REPOS[2], ForkRepoSpec>>

\* the table ForkTable, each repository absent or small, over an empty or a stale output
InitFork ==
    \E c \in [1..Len(ForkTable) -> {"absent", "readme", "other", "bad"}] :
        \E fs \in {EmptyFS, StaleOut} :
            Start(ForkTable, [i \in 1..Len(ForkTable) |-> SmallTree(ForkTable[i], c[i])],
                  fs, DirsOf(DOMAIN fs) \ {<<>>}, MaxRuns, NoOverride)

InitTables == InitRepos \/ InitFork

\* ------------------------------------------------------------------------
\* Actions
\* ------------------------------------------------------------------------

\* process.exit(1)
FailureStatus == 1

\* run().catch: a rejection inside run() ends the process with FailureStatus
Rejected ==
    /\ pc' = "Aborted"
    /\ exitCode' = FailureStatus

\* run() is called
Run ==
    /\ pc = "NotStarted"
    /\ pc' = "ClearingOutput"
    /\ UNCHANGED <<repos, src, out, outDirs, idx, step, todo, warnings, exitCode, runs, maxRuns,
                   before, written, injected, added, prevOut, prevPc, env, error, syncVars, fixVars>>

\* await fse.emptyDir(OUT_ROOT)
ClearOutput ==
    /\ pc = "ClearingOutput"
    /\ out' = EmptyDir(out)
    /\ outDirs' = {}
    /\ pc' = "ProcessingRepo"
    /\ idx' = 1
    /\ step' = "copy"
    /\ UNCHANGED <<repos, src, todo, warnings, exitCode, runs, maxRuns,
                   before, written, injected, added, prevOut, prevPc, env, error, syncVars, fixVars>>

AtRepo == pc = "ProcessingRepo" /\ idx <= Len(repos)

\* SkipRepo with return in place of continue
SkipRepoReturns ==
    /\ AtRepo /\ step = "copy"
    /\ ~SrcDocsExists(repos[idx], src[idx])
    /\ warnings' = Append(warnings, idx)
    /\ pc' = "Done"
    /\ UNCHANGED <<repos, src, out, outDirs, idx, step, todo, exitCode, runs, maxRuns,
                   before, written, injected, added, prevOut, prevPc, env, error, syncVars, fixVars>>

\* if (!fse.existsSync(srcDocs)) { console.warn(...); continue; }
SkipRepo ==
    /\ AtRepo /\ step = "copy"
    /\ ~SrcDocsExists(repos[idx], src[idx])
    /\ warnings' = Append(warnings, idx)
    /\ idx' = idx + 1
    /\ UNCHANGED <<repos, src, out, outDirs, pc, step, todo, exitCode, runs, maxRuns,
                   before, written, injected, added, prevOut, prevPc, env, error, syncVars, fixVars>>

\* the copy of a repository's documents, then the glob of the files to inject into
CopyRepo ==
    /\ AtRepo /\ step = "copy"
    /\ SrcDocsExists(repos[idx], src[idx])
    /\ out' = CopyDocs(repos[idx], src[idx], out)
    /\ outDirs' = outDirs \cup {OutDir(repos[idx])}
                  \cup {OutDir(repos[idx]) \o SubSeq(d, Len(SrcDocs(repos[idx])) + 1, Len(d)) :
                          d \in {e \in src[idx].dirs : IsPrefix(SrcDocs(repos[idx]), e)
                                                      /\ ~IsRootDocs(repos[idx])}}
    /\ written' = written \cup {OutDir(repos[idx]) \o p : p \in Selected(repos[idx], src[idx])}
    /\ todo' = InjectTargets(repos[idx], out')
    /\ step' = "inject"
    /\ UNCHANGED <<repos, src, pc, idx, warnings, exitCode, runs, maxRuns,
                   before, injected, added, prevOut, prevPc, env, error, syncVars, fixVars>>

\* InjectFile writing the annotated document back into the checkout
InjectFileAtSource(rel) ==
    LET abs == OutDir(repos[idx]) \o rel
        res == InjectedFile(repos[idx], rel, out[abs])
    IN  /\ AtRepo /\ step = "inject"
        /\ rel \in todo
        /\ res.ok
        /\ src' = [src EXCEPT ![idx].files =
                      [q \in DOMAIN src[idx].files \cup {SrcDocs(repos[idx]) \o rel} |->
                          IF q = SrcDocs(repos[idx]) \o rel THEN res.raw ELSE src[idx].files[q]]]
        /\ written' = written \cup {abs}
        /\ injected' = [q \in DOMAIN injected \cup {abs} |->
                          IF q = abs THEN [raw |-> out[abs], repo |-> idx, rel |-> rel, wrote |-> res.raw]
                          ELSE injected[q]]
        /\ todo' = todo \ {rel}
        /\ UNCHANGED <<repos, out, outDirs, pc, idx, step, warnings, exitCode, runs, maxRuns,
                       before, added, prevOut, prevPc, env, error, syncVars, fixVars>>

\* one turn of the injection loop: read, matter, stringify, write
InjectFile(rel) ==
    LET abs == OutDir(repos[idx]) \o rel
        res == InjectedFile(repos[idx], rel, out[abs])
    IN  /\ AtRepo /\ step = "inject"
        /\ rel \in todo
        /\ res.ok
        /\ out' = [out EXCEPT ![abs] = res.raw]
        /\ written' = written \cup {abs}
        /\ injected' = [q \in DOMAIN injected \cup {abs} |->
                          IF q = abs THEN [raw |-> out[abs], repo |-> idx, rel |-> rel, wrote |-> res.raw]
                          ELSE injected[q]]
        /\ todo' = todo \ {rel}
        /\ UNCHANGED <<repos, src, outDirs, pc, idx, step, warnings, exitCode, runs, maxRuns,
                       before, added, prevOut, prevPc, env, error, syncVars, fixVars>>

\* matter() or matter.stringify() throws: run() rejects, process.exit(1)
InjectThrows(rel) ==
    LET abs == OutDir(repos[idx]) \o rel
        res == InjectedFile(repos[idx], rel, out[abs])
    IN  /\ AtRepo /\ step = "inject"
        /\ rel \in todo
        /\ ~res.ok
        /\ Rejected
        /\ UNCHANGED <<repos, src, out, outDirs, idx, step, todo, warnings, runs, maxRuns,
                       before, written, injected, added, prevOut, prevPc, env, error, syncVars, fixVars>>

\* if (!hasIndex) await fse.writeFile(path.join(out, 'index.md'), ...)
AddIndex ==
    /\ AtRepo /\ step = "inject" /\ todo = {}
    /\ ~HasIndex(repos[idx], out)
    /\ out' = [q \in DOMAIN out \cup {OutDir(repos[idx]) \o <<"index.md">>} |->
                 IF q = OutDir(repos[idx]) \o <<"index.md">> THEN IndexFile(repos[idx]).raw
                 ELSE out[q]]
    /\ written' = written \cup {OutDir(repos[idx]) \o <<"index.md">>}
    /\ added' = added \cup {OutDir(repos[idx]) \o <<"index.md">>}
    /\ idx' = idx + 1
    /\ step' = "copy"
    /\ UNCHANGED <<repos, src, outDirs, pc, todo, warnings, exitCode, runs, maxRuns,
                   before, injected, prevOut, prevPc, env, error, syncVars, fixVars>>

\* KeepIndex that does not wait for the injection loop to end
KeepIndexBeforeInjected ==
    /\ AtRepo /\ step = "inject"
    /\ HasIndex(repos[idx], out)
    /\ idx' = idx + 1
    /\ step' = "copy"
    /\ UNCHANGED <<repos, src, out, outDirs, pc, todo, warnings, exitCode, runs, maxRuns,
                   before, written, injected, added, prevOut, prevPc, env, error, syncVars, fixVars>>

\* hasIndex: nothing to add
KeepIndex ==
    /\ AtRepo /\ step = "inject" /\ todo = {}
    /\ HasIndex(repos[idx], out)
    /\ idx' = idx + 1
    /\ step' = "copy"
    /\ UNCHANGED <<repos, src, out, outDirs, pc, todo, warnings, exitCode, runs, maxRuns,
                   before, written, injected, added, prevOut, prevPc, env, error, syncVars, fixVars>>

\* fse.emptyDir(OUT_ROOT) is rejected (never for a missing directory, which it
\* makes): the entries of OUT_ROOT in keep are left, the others were removed
ClearFails(code, keep) ==
    /\ pc = "ClearingOutput"
    /\ code # "ENOENT"
    /\ keep # {} \/ out = EmptyFS
    /\ out' = [p \in {q \in DOMAIN out : q[1] \in keep} |-> out[p]]
    /\ outDirs' = {d \in outDirs : d[1] \in keep}
    /\ Rejected
    /\ error' = [code |-> code, repo |-> 0, at |-> "clear"]
    /\ UNCHANGED <<repos, src, idx, step, todo, warnings, runs, maxRuns,
                   before, written, injected, added, prevOut, prevPc, env, syncVars, fixVars>>

\* fse.ensureDir or fse.copy is rejected after the files done were copied; a
\* source file missing in the second pass of a root-level repository is left
\* out by existsSync(srcFile) and rejects nothing
CopyFails(code, done) ==
    /\ AtRepo /\ step = "copy"
    /\ SrcDocsExists(repos[idx], src[idx])
    /\ done # Selected(repos[idx], src[idx]) \/ done = {}
    /\ code = "ENOENT" =>
          \/ ~IsRootDocs(repos[idx])
          \/ Globby(MarkdownPatterns, Below(DOMAIN src[idx].files, SrcDocs(repos[idx]))) # {}
    /\ out' = CopyFiles(repos[idx], src[idx], out, done)
    /\ outDirs' = outDirs \cup (IF done = {} THEN {} ELSE {OutDir(repos[idx])})
    /\ written' = written \cup {OutDir(repos[idx]) \o p : p \in done}
    /\ Rejected
    /\ error' = [code |-> code, repo |-> idx, at |-> "copy"]
    /\ UNCHANGED <<repos, src, idx, step, todo, warnings, runs, maxRuns,
                   before, injected, added, prevOut, prevPc, env, syncVars, fixVars>>

\* fse.readFile or fse.writeFile of the injection loop is rejected
InjectFails(rel, code) ==
    /\ AtRepo /\ step = "inject"
    /\ rel \in todo
    /\ Rejected
    /\ error' = [code |-> code, repo |-> idx, at |-> "inject"]
    /\ UNCHANGED <<repos, src, out, outDirs, idx, step, todo, warnings, runs, maxRuns,
                   before, written, injected, added, prevOut, prevPc, env, syncVars, fixVars>>

\* IndexFails with the rejection caught: the error is logged and the loop goes on
IndexFailsSwallowed(code) ==
    /\ AtRepo /\ step = "inject" /\ todo = {}
    /\ ~HasIndex(repos[idx], out)
    /\ error' = [code |-> code, repo |-> idx, at |-> "index"]
    /\ idx' = idx + 1
    /\ step' = "copy"
    /\ UNCHANGED <<repos, src, out, outDirs, pc, todo, warnings, exitCode, runs, maxRuns,
                   before, written, injected, added, prevOut, prevPc, env, syncVars, fixVars>>

\* fse.writeFile of the index is rejected
IndexFails(code) ==
    /\ AtRepo /\ step = "inject" /\ todo = {}
    /\ ~HasIndex(repos[idx], out)
    /\ Rejected
    /\ error' = [code |-> code, repo |-> idx, at |-> "index"]
    /\ UNCHANGED <<repos, src, out, outDirs, idx, step, todo, warnings, runs, maxRuns,
                   before, written, injected, added, prevOut, prevPc, env, syncVars, fixVars>>

\* the loop is over: console.log('Aggregation complete.')
Finish ==
    /\ pc = "ProcessingRepo" /\ idx > Len(repos)
    /\ pc' = "Done"
    /\ UNCHANGED <<repos, src, out, outDirs, idx, step, todo, warnings, exitCode, runs, maxRuns,
                   before, written, injected, added, prevOut, prevPc, env, error, syncVars, fixVars>>

\* the script is started again over the output of a run that completed
Rerun ==
    /\ pc = "Done"
    /\ runs < maxRuns
    /\ runs' = runs + 1
    /\ pc' = "NotStarted"
    /\ idx' = 1
    /\ step' = "copy"
    /\ todo' = {}
    /\ warnings' = <<>>
    /\ exitCode' = 0
    /\ before' = out
    /\ written' = {}
    /\ injected' = EmptyFS
    /\ added' = {}
    /\ prevOut' = out
    /\ prevPc' = pc
    /\ error' = NoError
    /\ UNCHANGED <<repos, src, out, outDirs, maxRuns, env, syncVars, fixVars>>

Next ==
    \/ Run
    \/ ClearOutput
    \/ SkipRepo
    \/ CopyRepo
    \/ \E rel \in todo : InjectFile(rel)
    \/ \E rel \in todo : InjectThrows(rel)
    \/ \E code \in ErrorCodes : \E keep \in SUBSET {p[1] : p \in DOMAIN out} : ClearFails(code, keep)
    \/ AtRepo /\ \E code \in ErrorCodes : \E done \in SUBSET Selected(repos[idx], src[idx]) : CopyFails(code, done)
    \/ \E code \in ErrorCodes : \E rel \in todo : InjectFails(rel, code)
    \/ \E code \in ErrorCodes : IndexFails(code)
    \/ AddIndex
    \/ KeepIndex
    \/ Finish
    \/ Rerun

Spec == Init /\ [][Next]_vars

\* run() over the tables of several repositories
SpecTables == InitTables /\ [][Next]_vars

\* ------------------------------------------------------------------------
\* Properties
\* ------------------------------------------------------------------------

\* the metadata a reader of a file finds in it
MetaOf(raw) == Matter(raw).data

\* the directories directly below OUT_ROOT
TopDirs == {d \in outDirs \cup DirsOf(DOMAIN out) : Len(d) = 1}

\* the repository of the table whose output directory holds path
RepoAt(path) == repos[CHOOSE i \in 1..Len(repos) : ShortName(repos[i]) = path[1]]

\* C1: a document that already has the key custom_edit_url, with whatever
\* value, is written with exactly that value: the computed URL is inserted
\* only when the key is absent.
C1_ExistingEditUrlKept ==
    \A p \in DOMAIN injected :
        LET own == MetaOf(injected[p].raw)
        IN  HasKey(own, EditUrlKey) =>
                Lookup(MetaOf(injected[p].wrote), EditUrlKey) = Lookup(own, EditUrlKey)

\* the URL C2 names, put together from its parts
C2_Expected(r, rel) ==
    <<"https:", "/", "/", "github.com", "/">> \o r.repo \o <<"/", "edit", "/">>
    \o (IF "branch" \in DOMAIN r THEN r.branch ELSE <<"main">>) \o <<"/">>
    \o (IF "docsDir" \notin DOMAIN r THEN <<"docs", "/">>
        ELSE IF r.docsDir = <<".">> THEN <<>> ELSE r.docsDir \o <<"/">>)
    \o JoinWith(SplitOn(RelString(rel), BSL), SEP)

\* C2: a document without custom_edit_url is written with
\* https://github.com/<repo>/edit/<branch>/<path>, where the path is the
\* output-relative path for a root-level repository and docsDir joined with it
\* otherwise, and the branch is main unless given; peers-sdk's devices.md gets
\* .../edit/main/docs/devices.md and peers-ui's README.md .../edit/main/README.md.
C2_DefaultEditUrl ==
    \A p \in DOMAIN injected :
        LET url == Lookup(MetaOf(injected[p].wrote), EditUrlKey)
        IN  ~HasKey(MetaOf(injected[p].raw), EditUrlKey) =>
              /\ url = C2_Expected(repos[injected[p].repo], injected[p].rel)
              /\ (repos[injected[p].repo] = REPOS[1] /\ injected[p].rel = <<"devices.md">>) =>
                    url = <<"https:", "/", "/", "github.com", "/", "peers-app", "/", "peers-sdk",
                            "/", "edit", "/", "main", "/", "docs", "/", "devices.md">>
              /\ (repos[injected[p].repo] = REPOS[2] /\ injected[p].rel = <<"README.md">>) =>
                    url = <<"https:", "/", "/", "github.com", "/", "peers-app", "/", "peers-ui",
                            "/", "edit", "/", "main", "/", "README.md">>

\* C2's case: a nested document of a docs directory, and a document of a
\* RepoSpec without docsDir and branch, were written with the computed URL
C2_Witness ==
    \E p \in DOMAIN injected :
        /\ ~HasKey(MetaOf(injected[p].raw), EditUrlKey)
        /\ \/ repos[injected[p].repo] = REPOS[1] /\ injected[p].rel = <<"data", "orm.md">>
           \/ repos[injected[p].repo] = BareRepoSpec

\* C3: after a run that completed, every directory directly below the output
\* root holds an index.md or a README.md.
C3_EveryRepoDirHasIndex ==
    pc = "Done" =>
        \A d \in TopDirs : \E n \in {"index.md", "README.md"} : d \o <<n>> \in DOMAIN out

\* C3's case: a run completed, it added an index to one repository and another
\* kept its README
C3_Witness ==
    /\ pc = "Done"
    /\ added # {}
    /\ \E d \in TopDirs : d \o <<"README.md">> \in DOMAIN out /\ d \o <<"index.md">> \notin DOMAIN out

\* C4: malformed front matter is never an error: matter() does not throw on
\* any file the injection loop visits, and the run does not abort.
C4_MalformedFrontMatterTolerated ==
    /\ error = NoError => pc # "Aborted"
    /\ (AtRepo /\ step = "inject") =>
          \A rel \in todo : Matter(out[OutDir(repos[idx]) \o rel]).ok

\* C5: once repositories without a source directory were skipped, the run
\* does not abort, every other repository is processed in full and one warning
\* is reported per absent repository.
C5_AbsentReposTolerated ==
    (warnings # <<>> /\ error = NoError) =>
        /\ pc # "Aborted"
        /\ pc = "Done" =>
              /\ Len(warnings) = Cardinality({i \in 1..Len(repos) : ~SrcDocsExists(repos[i], src[i])})
              /\ \A i \in 1..Len(repos) :
                    SrcDocsExists(repos[i], src[i]) =>
                        \A q \in Selected(repos[i], src[i]) : OutDir(repos[i]) \o q \in DOMAIN out

\* C6: after a run that completed, the output tree holds no file but those the
\* run wrote; no file of an earlier run under a directory that belongs to no
\* repository of the table is left.
C6_NoStaleOutput ==
    pc = "Done" =>
        /\ DOMAIN out \subseteq written
        /\ \A p \in DOMAIN before :
              (\A i \in 1..Len(repos) : ShortName(repos[i]) # p[1]) => p \notin DOMAIN out

\* C6's case: a run completed over an output root that held files of a
\* repository the table no longer names
C6_Witness ==
    /\ pc = "Done"
    /\ out # EmptyFS
    /\ \E p \in DOMAIN before : \A i \in 1..Len(repos) : ShortName(repos[i]) # p[1]

\* C7: a second run over unchanged sources leaves the output tree, paths and
\* contents, that the first run left, whatever the output root held before.
C7_Idempotent ==
    (runs >= 2 /\ pc = "Done" /\ prevPc = "Done") => out = prevOut

\* C7's case: the second of two completed runs has ended, with documents in
\* the tree
C7_Witness ==
    /\ runs = 2 /\ pc = "Done" /\ prevPc = "Done"
    /\ injected # EmptyFS
    /\ added # {}

\* C8: after a run that completed, every .md or .mdx file of the output tree
\* has the key custom_edit_url in its front matter.
C8_EveryDocumentHasEditUrl ==
    pc = "Done" =>
        \A p \in DOMAIN out : IsMarkdown(p) => HasKey(MetaOf(out[p]), EditUrlKey)

\* whether url is https://github.com/<repo>/edit/<branch>/<path> for r
IsEditUrlOf(r, url) ==
    LET head == <<"https:", "/", "/", "github.com", "/">> \o r.repo \o <<"/", "edit", "/">>
                \o Branch(r) \o <<"/">>
    IN  Len(url) > Len(head) /\ SubSeq(url, 1, Len(head)) = head

\* C9 as stated: after a run that completed, the custom_edit_url of every
\* document of the output tree is https://<host>/<repo>/edit/<branch>/<path>.
C9_EveryEditUrlIsEditForm ==
    pc = "Done" =>
        \A p \in DOMAIN out :
            (IsMarkdown(p) /\ HasKey(MetaOf(out[p]), EditUrlKey)) =>
                \E i \in 1..Len(repos) : IsEditUrlOf(repos[i], Lookup(MetaOf(out[p]), EditUrlKey))

\* C9 amended: after a run that completed, a document the run injected into
\* that had no custom_edit_url key has
\* https://github.com/<repo>/edit/<branch>/<path> of its repository; one that
\* had a value of its own keeps it, whatever its form; the index the run added
\* has https://github.com/<repo>, the repository root.
C9_EditUrlForms ==
    pc = "Done" =>
        \A p \in DOMAIN out :
            LET url == Lookup(MetaOf(out[p]), EditUrlKey)
            IN  /\ p \in added => url = <<"https:", "/", "/", "github.com", "/">> \o RepoAt(p).repo
                /\ p \in DOMAIN injected =>
                      LET own == Lookup(MetaOf(injected[p].raw), EditUrlKey)
                      IN  /\ own = Undefined => IsEditUrlOf(RepoAt(p), url)
                          /\ own \notin {Undefined, NullValue} => url = own

\* C9's case: a run completed that computed a URL, kept a hand-written one
\* and added an index
C9_Witness ==
    /\ pc = "Done"
    /\ added # {}
    /\ \E p \in DOMAIN injected : Lookup(MetaOf(injected[p].raw), EditUrlKey) = HandUrl
    /\ \E p \in DOMAIN injected : Lookup(MetaOf(injected[p].raw), EditUrlKey) = Undefined

\* C10 as stated: after a run, the output tree holds no file whose extension
\* is not .md or .mdx.
C10_OnlyMarkdownInOutput ==
    pc = "Done" => \A p \in DOMAIN out : IsMarkdown(p)

\* C10 amended: a file that is not .md or .mdx is never selected from the top
\* level of a root-level repository; after a run the output tree holds such a
\* file only under the directory of a repository with a docs directory, which
\* is copied whole, or below docs/ or documentation/ of a root-level one.
C10_NonMarkdownOnlyFromDocsDirs ==
    pc = "Done" =>
        \A p \in DOMAIN out :
            ~IsMarkdown(p) =>
                \/ ~IsRootDocs(RepoAt(p))
                \/ Len(p) >= 3 /\ p[2] \in {"docs", "documentation"}

\* C10's case: a run completed for a root-level repository that has a file
\* other than markdown at its top level, and the output holds none such there
C10_Witness ==
    /\ pc = "Done"
    /\ \E i \in 1..Len(repos) :
          /\ IsRootDocs(repos[i])
          /\ <<"logo.png">> \in DOMAIN src[i].files
          /\ <<"docs", "img.png">> \in DOMAIN src[i].files
          /\ OutDir(repos[i]) \o <<"docs", "img.png">> \in DOMAIN out

\* the position in the table of the repository a path of the output tree belongs to
RepoIndexAt(path) == CHOOSE i \in 1..Len(repos) : ShortName(repos[i]) = path[1]

\* C11: once a file-system call made for repository i is rejected with an error
\* other than path-not-found, the run is aborted with a failure status, at
\* repository i: it is not Done, and nothing was written or reported for a
\* repository after i.
C11_IoErrorAborts ==
    (error.code \notin {"none", "ENOENT"} /\ error.repo >= 1) =>
        /\ pc = "Aborted"
        /\ exitCode # 0
        /\ idx = error.repo
        /\ \A p \in written : RepoIndexAt(p) <= error.repo
        /\ \A n \in 1..Len(warnings) : warnings[n] < error.repo

\* C11's case: a write for a repository that is not the last of the table was
\* rejected with EACCES after files were written
C11_Witness ==
    /\ error.code = "EACCES"
    /\ error.repo >= 1 /\ error.repo < Len(repos)
    /\ error.at \in {"copy", "inject", "index"}
    /\ written # {}
    /\ pc = "Aborted"

\* C12: a path-not-found error of a copy, read or write step is recoverable:
\* the run is not aborted by it and does not end with a failure status.
C12_NotFoundRecoverable ==
    error.code = "ENOENT" => (pc # "Aborted" /\ exitCode = 0)

\* C13: a run that ended has exit status 0 unless an unrecoverable error (a
\* file-system error other than path-not-found) occurred, skipped repositories
\* or not, and a non-zero status exactly when one occurred.
C13_ExitStatus ==
    pc \in {"Done", "Aborted"} =>
        (exitCode # 0 <=> error.code \notin {"none", "ENOENT"})

\* the directory the run clears and writes below, given process.env.OUT_ROOT:
\* OUT_ROOT, a constant; process.env is not read
OutputRoot(override) == OUT_ROOT

\* C14: with an output root given through the environment, the run works
\* below that root and creates, changes and deletes nothing below the default
\* output root.
C14_OverrideConfinesOutput ==
    env # NoOverride =>
        /\ \A p \in written : OutputRoot(env) = env
        /\ out = before

\* C15: an index the run added has a body whose level-1 heading is the short
\* name of the repository and with a line of text that holds the whole
\* repository identifier, and its custom_edit_url is the URL of the
\* repository root.
C15_FallbackIndexContent ==
    \A p \in added :
        LET f == Matter(out[p])
            r == repos[RepoIndexAt(p)]
        IN  /\ f.ok
            /\ p = <<p[1], "index.md">>
            /\ f.content # <<>>
            /\ f.content[1] = [t |-> "h1", k |-> r.repo[Len(r.repo)], v |-> <<>>]
            /\ Cardinality({n \in 1..Len(f.content) : f.content[n].t = "h1"}) = 1
            /\ \E n \in 1..Len(f.content) : f.content[n].t = "text" /\ f.content[n].v = r.repo
            /\ Lookup(f.data, EditUrlKey) = <<"https:", SEP, SEP, "github.com", SEP>> \o r.repo

\* C15's case: the run added an index to a repository that has a document but
\* neither index.md nor README.md
C15_Witness ==
    \E p \in added :
        /\ p \in DOMAIN out
        /\ <<p[1], "other.md">> \in DOMAIN out

\* C16: no edit URL the run computed has a backslash in it, whatever the
\* relative path it was computed from holds.
C16_NoBackslashInEditUrl ==
    \A p \in DOMAIN injected :
        LET own == Lookup(MetaOf(injected[p].raw), EditUrlKey)
            url == Lookup(MetaOf(injected[p].wrote), EditUrlKey)
        IN  own \in {Undefined, NullValue} => \A n \in 1..Len(url) : url[n] # BSL

\* C16's case: the URL of a document whose relative path has a backslash in it
\* was computed
C16_Witness ==
    \E p \in DOMAIN injected :
        /\ ~HasKey(MetaOf(injected[p].raw), EditUrlKey)
        /\ \E n \in 1..Len(RelString(injected[p].rel)) : RelString(injected[p].rel)[n] = BSL

\* the keys of a front-matter mapping
KeysOf(data) == {data[n].k : n \in 1..Len(data)}

\* C17: the injection leaves every front-matter key other than
\* custom_edit_url in the file with its value, and adds no key other than
\* custom_edit_url.
C17_OtherKeysUntouched ==
    \A p \in DOMAIN injected :
        LET old == MetaOf(injected[p].raw)
            new == MetaOf(injected[p].wrote)
        IN  /\ \A k \in KeysOf(old) \ {EditUrlKey} :
                  k \in KeysOf(new) /\ Lookup(new, k) = Lookup(old, k)
            /\ KeysOf(new) \ {EditUrlKey} \subseteq KeysOf(old)

\* the paths of the output tree that a step creates, changes or removes
Touched ==
    {p \in DOMAIN out \cup DOMAIN out' :
        p \notin DOMAIN out \/ p \notin DOMAIN out' \/ out[p] # out'[p]}

\* C18: the repositories are processed one at a time in the order of the
\* table: while the loop runs, a step works on the files of repository idx
\* alone, idx moves on by one only when the repository was skipped as absent or
\* its copy, injection and index are over, and the copy of a repository starts
\* once, with nothing of it or of a later repository written before.
C18_OneRepoAtATime ==
    [][(pc = "ProcessingRepo" /\ pc' = "ProcessingRepo") =>
          /\ idx' \in {idx, idx + 1}
          /\ \A p \in Touched : p[1] = ShortName(repos[idx])
          /\ idx' = idx + 1 =>
                /\ step' = "copy"
                /\ \/ step = "copy" /\ ~SrcDocsExists(repos[idx], src[idx]) /\ Touched = {}
                   \/ /\ step = "inject" /\ todo = {}
                      /\ HasIndex(repos[idx], out')
                      /\ \A q \in Selected(repos[idx], src[idx]) :
                            OutDir(repos[idx]) \o q \in DOMAIN out'
          /\ (step = "copy" /\ step' = "inject") =>
                \A p \in written : RepoIndexAt(p) < idx
      ]_vars

\* C18's case: the loop is at the third repository, after one repository was
\* skipped and one was copied, injected into and indexed
C18_Witness ==
    /\ pc = "ProcessingRepo"
    /\ idx = 3
    /\ step = "inject"
    /\ warnings # <<>>
    /\ \E p \in written : RepoIndexAt(p) < 3
    /\ \E p \in written : RepoIndexAt(p) = 3

\* a step of a run keeps to NotStarted -> ClearingOutput -> ProcessingRepo(1)
\* -> ... -> ProcessingRepo(N) -> Done, enters Aborted from the states of
\* abortFrom alone, clears the output root in ClearingOutput alone and before
\* anything is written; from Done or Aborted the script can only be started anew
RunSteps(abortFrom) ==
    /\ pc' # pc =>
          \/ pc = "NotStarted" /\ pc' = "ClearingOutput"
          \/ pc = "ClearingOutput" /\ pc' = "ProcessingRepo" /\ idx' = 1 /\ out' = EmptyFS
          \/ pc = "ProcessingRepo" /\ pc' = "Done" /\ idx = Len(repos) + 1
          \/ pc \in abortFrom /\ pc' = "Aborted"
          \/ pc \in {"Done", "Aborted"} /\ pc' = "NotStarted" /\ runs' = runs + 1
    /\ (pc = "ProcessingRepo" /\ pc' = "ProcessingRepo") => idx' \in {idx, idx + 1}
    /\ DOMAIN out \ DOMAIN out' # {} => pc = "ClearingOutput"
    /\ pc \in {"NotStarted", "ClearingOutput"} => written = {}

\* C19 as stated: a run takes only the transitions NotStarted ->
\* ClearingOutput -> ProcessingRepo(0) -> ... -> ProcessingRepo(N-1) -> Done,
\* enters Aborted only from ProcessingRepo, and clears the output root once,
\* before any repository's output is written.
C19_RunStateMachine ==
    [][RunSteps({"ProcessingRepo"})]_vars

\* C19 amended: as stated, except that Aborted is entered from ClearingOutput
\* too, when clearing the output root is rejected.
C19_RunStateMachineWithClearAbort ==
    [][RunSteps({"ClearingOutput", "ProcessingRepo"})]_vars

\* C19's case: the run was aborted while clearing the output root
C19_Witness ==
    /\ pc = "Aborted"
    /\ error.at = "clear"
    /\ written = {}

\* ['index.md', 'index.mdx', 'README.md', 'README.mdx']: the names of an index
\* or README document of any markdown extension
IndexDocNames == {"index.md", "index.mdx", "README.md", "README.mdx"}

\* C20: once a repository is copied and injected into, index.md is added if
\* and only if its output directory holds no index or README document of any
\* markdown extension at its top level, and the index added replaces no file.
C20_IndexIffNoIndexDocument ==
    [][(pc = "ProcessingRepo" /\ pc' = "ProcessingRepo" /\ step = "inject" /\ idx' = idx + 1) =>
          LET index == OutDir(repos[idx]) \o <<"index.md">>
          IN  /\ index \in added' <=>
                    ~\E n \in IndexDocNames : OutDir(repos[idx]) \o <<n>> \in DOMAIN out
              /\ index \in added' => index \notin DOMAIN out
              /\ index \notin added' => out' = out
      ]_vars

\* the documents below the output directory of repository i, but for the index
\* the run added: paths relative to that directory
OutputDocuments(i) ==
    {p \in Below(DOMAIN out, OutDir(repos[i])) :
        IsMarkdown(p) /\ OutDir(repos[i]) \o p \notin added}

RootConventionFiles(i) ==
    {p \in Below(DOMAIN src[i].files, SrcDocs(repos[i])) :
        \/ Len(p) = 1 /\ IsMarkdown(p)
        \/ Len(p) > 1 /\ p[1] \in {"docs", "documentation"}}

\* the files below the output directory of repository i, but for the index the
\* run added: paths relative to that directory
OutputFiles(i) ==
    {p \in Below(DOMAIN out, OutDir(repos[i])) : OutDir(repos[i]) \o p \notin added}

\* C22 as stated: after a run that completed, the files copied for a
\* root-level repository are exactly its top-level markdown files and the files
\* below docs/ and documentation/, at the same relative paths.
C22_RootSelectionExact ==
    pc = "Done" =>
        \A i \in 1..Len(repos) :
            (IsRootDocs(repos[i]) /\ src[i].exists) => OutputFiles(i) = RootConventionFiles(i)

\* C22 amended: as stated, for the files with no name on their path that
\* begins with a period; the others are not copied.
C22_RootSelectionExactButDotFiles ==
    pc = "Done" =>
        \A i \in 1..Len(repos) :
            (IsRootDocs(repos[i]) /\ src[i].exists) =>
                OutputFiles(i) =
                    {p \in RootConventionFiles(i) : \A n \in 1..Len(p) : p[n] \notin DotNames}

\* C22's case: a root-level repository with a document below docs/, copied,
\* and a document in another directory, left out
C22_Witness ==
    /\ pc = "Done"
    /\ \E i \in 1..Len(repos) :
          /\ IsRootDocs(repos[i])
          /\ <<"docs", "api.md">> \in OutputFiles(i)
          /\ <<"lib", "z.md">> \in DOMAIN src[i].files

\* the document one selection, one copy and one injection make of a source file
SingleSelection(r, rel, raw) ==
    LET fm == Matter(raw)
        body == Append(TrimStart(fm.content), BlankLine)
    IN  Stringify(Matter(body), InjectedData(fm.data, ComputeEditUrl(r, RelString(rel))))

\* the files of a set that both passes over a root-level repository select
BothPasses(files) == Globby(MarkdownPatterns, files) \cap Globby(DocPatterns, files)

\* C23: after a run that completed, a file of a root-level repository that
\* both passes select is in the output once, at its path, with the front
\* matter and the body one selection of it gives.
C23_BothPassesOneDocument ==
    pc = "Done" =>
        \A i \in 1..Len(repos) :
            (IsRootDocs(repos[i]) /\ src[i].exists) =>
                \A rel \in BothPasses(Below(DOMAIN src[i].files, SrcDocs(repos[i]))) :
                    LET abs == OutDir(repos[i]) \o rel
                    IN  /\ abs \in DOMAIN out
                        /\ out[abs] = SingleSelection(repos[i], rel, src[i].files[SrcDocs(repos[i]) \o rel])

\* C23's case: a top-level .md file, which '*.md' selects in both passes, was
\* copied and injected into
C23_Witness ==
    /\ pc = "Done"
    /\ \E i \in 1..Len(repos) :
          /\ IsRootDocs(repos[i]) /\ src[i].exists
          /\ <<"README.md">> \in BothPasses(Below(DOMAIN src[i].files, SrcDocs(repos[i])))
          /\ OutDir(repos[i]) \o <<"README.md">> \in DOMAIN injected

\* a body without the blank lines at its end
RECURSIVE TrimEnd(_)
TrimEnd(body) ==
    IF body = <<>> THEN <<>>
    ELSE IF body[Len(body)].t = "blank" THEN TrimEnd(SubSeq(body, 1, Len(body) - 1))
    ELSE body

\* a body without the blank lines at its start
RECURSIVE LeadingBlanksRemoved(_)
LeadingBlanksRemoved(body) ==
    IF body = <<>> THEN <<>>
    ELSE IF Head(body).t = "blank" THEN LeadingBlanksRemoved(Tail(body))
    ELSE body

\* C24: the body of a document the run wrote is the body of the document it
\* read with the leading blank lines removed, trailing blank lines aside.
C24_BodyPreserved ==
    \A p \in DOMAIN injected :
        TrimEnd(Matter(injected[p].wrote).content)
            = TrimEnd(LeadingBlanksRemoved(Matter(injected[p].raw).content))

\* whether the directory run() reads for repository i is missing
ConventionRootAbsent(i) ==
    \/ ~src[i].exists
    \/ /\ SrcDocs(repos[i]) # <<>>
       /\ SrcDocs(repos[i]) \notin src[i].dirs
       /\ \A p \in DOMAIN src[i].files : ~IsPrefix(SrcDocs(repos[i]), p)

\* C25: after a run that completed, the output tree holds no directory, no
\* document and no index for a repository whose source directory is absent.
C25_AbsentRepoLeavesNothing ==
    pc = "Done" =>
        \A i \in 1..Len(repos) :
            ConventionRootAbsent(i) =>
                /\ \A p \in DOMAIN out : p[1] # repos[i].repo[Len(repos[i].repo)]
                /\ \A d \in outDirs : d[1] # repos[i].repo[Len(repos[i].repo)]
                /\ \A p \in added \cup written : p[1] # repos[i].repo[Len(repos[i].repo)]

\* C25's case: a run completed with a repository absent whose directory held a
\* file of an earlier run, and with other repositories copied
C25_Witness ==
    /\ pc = "Done"
    /\ out # EmptyFS
    /\ \E i \in 1..Len(repos) :
          /\ ConventionRootAbsent(i)
          /\ \E p \in DOMAIN before : p[1] = repos[i].repo[Len(repos[i].repo)]

\* C26: no step of a run changes a source tree, and every path a step writes
\* lies outside every repository's checkout.
C26_SourcesUntouched ==
    [][/\ src' = src
       /\ \A p \in written' :
             \A i \in 1..Len(repos) : ~IsPrefix(repos[i].local, OUT_ROOT \o p)]_vars

\* C26's case: a run ended, by abort, after rewriting a document in the output
\* whose source file still holds what was read
C26_Witness ==
    /\ pc = "Aborted"
    /\ \E p \in DOMAIN injected :
          /\ p \in DOMAIN out
          /\ out[p] # injected[p].raw
          /\ src[injected[p].repo].files[SrcDocs(repos[injected[p].repo]) \o injected[p].rel]
                = injected[p].raw

\* whether the repoIdentifiers of the table are pairwise distinct
DistinctIdentifiers ==
    \A i, j \in 1..Len(repos) : i # j => repos[i].repo # repos[j].repo

\* whether the short names of the table are pairwise distinct
DistinctShortNames ==
    \A i, j \in 1..Len(repos) :
        i # j => repos[i].repo[Len(repos[i].repo)] # repos[j].repo[Len(repos[j].repo)]

\* a step of the loop touches only paths below the subdirectory of repository
\* idx, none of them a document injected or an index added for another repository
ConfinedStep ==
    pc = "ProcessingRepo" =>
        \A p \in Touched :
            /\ p[1] = repos[idx].repo[Len(repos[idx].repo)]
            /\ p \in DOMAIN injected => injected[p].repo = idx
            /\ p \notin added

\* C27 as stated: whenever the repoIdentifiers of the table are pairwise
\* distinct, processing a repository touches only its own subdirectory and no
\* output document produced for another repository.
C27_ConfinedDistinctIdentifiers ==
    [][DistinctIdentifiers => ConfinedStep]_vars

\* C27, amended: whenever the short names of the table are pairwise distinct,
\* processing a repository touches only its own subdirectory and no output
\* document produced for another repository.
C27_ConfinedDistinctShortNames ==
    [][DistinctShortNames => ConfinedStep]_vars

\* C27's case: a run over a table of distinct short names completed with
\* documents of two repositories in the output tree
C27_Witness ==
    /\ pc = "Done"
    /\ DistinctShortNames
    /\ \E p, q \in DOMAIN injected :
          /\ injected[p].repo # injected[q].repo
          /\ {p, q} \subseteq DOMAIN out

\* the documents run() selects for repository j: paths relative to its srcDocs
SelectedDocuments(j) == {p \in Selected(repos[j], src[j]) : IsMarkdown(p)}

\* C28: when the run aborted while processing repository idx, every repository
\* before it whose source directory exists has all its selected documents in
\* the output tree, each with the key custom_edit_url, and an index or README
\* document at the top level of its subdirectory.
C28_EarlierReposComplete ==
    pc = "Aborted" =>
        \A j \in 1..(idx - 1) :
            ~ConventionRootAbsent(j) =>
                LET dir == <<repos[j].repo[Len(repos[j].repo)]>>
                IN  /\ \A p \in SelectedDocuments(j) :
                          /\ dir \o p \in DOMAIN out
                          /\ HasKey(MetaOf(out[dir \o p]), EditUrlKey)
                    /\ \E n \in IndexDocNames : dir \o <<n>> \in DOMAIN out

\* ------------------------------------------------------------------------
\* syncLocalRepos
\* ------------------------------------------------------------------------

\* const REPOS: RepoSpec[] of the sync script: {repo, localSource, docsDir?, branch?}
LocalREPOS ==
    [n \in 1..5 |->
        LET name == <<"peers-sdk", "peers-ui", "peers-device", "peers-electron",
                      "peers-react-native">>[n]
        IN  [repo |-> <<"peers-app", SEP, name>>, localSource |-> <<"..", SEP, name>>,
             docsDir |-> IF n = 1 THEN <<"docs">> ELSE <<".">>, branch |-> <<"main">>]]

\* const SOURCES_ROOT = '_sources'; the paths of sources are relative to it
SOURCES_ROOT == <<"_sources">>

\* s.includes(pat): pat occurs in s
Includes(s, pat) ==
    \E k \in 1..(Len(s) - Len(pat) + 1) : SubSeq(s, k, k + Len(pat) - 1) = pat

\* the strings the filter looks for in relativePath
SkipStrings ==
    {<<"node_modules">>, <<".git">>, <<"build">>, <<"dist">>, <<"coverage">>, <<".next">>,
     <<"ios", SEP, "Pods">>, <<"android", SEP, ".gradle">>}

\* the filter of fse.copy, on path.relative(sourceRepoPath, src)
SyncFilter(rel) == \A pat \in SkipStrings : ~Includes(RelString(rel), pat)

\* the files fse.copy(sourceRepoPath, destPath, {filter}) copies: the filter is
\* asked for the root, for every directory on the way and for the file
FilteredCopy(files) ==
    {p \in files : \A n \in 0..Len(p) : SyncFilter(SubSeq(p, 1, n))}

\* path.join(SOURCES_ROOT, r.repo.split('/')[1]), relative to SOURCES_ROOT
DestPath(r) == <<ShortName(r)>>

\* the paths a checkout may hold files at
CheckoutPaths ==
    {<<"README.md">>, <<"docs", "api.md">>, <<"docs", "building.md">>, <<"src", "distance.md">>,
     <<".gitignore">>, <<"node_modules", "pkg", "README.md">>, <<".git", "config">>,
     <<"build", "index.md">>, <<"dist", "x.md">>, <<"coverage", "index.md">>,
     <<".next", "x.md">>, <<"ios", "Pods", "x.md">>, <<"ios", "README.md">>,
     <<"android", ".gradle", "x.md">>, <<"android", "README.md">>}

AbsentCheckout == [exists |-> FALSE, files |-> {}]

\* the checkouts of at most n files
Checkouts(n) ==
    {AbsentCheckout} \cup
    {[exists |-> TRUE, files |-> P] : P \in {Q \in SUBSET CheckoutPaths : Cardinality(Q) <= n}}

\* what an earlier sync left below SOURCES_ROOT
StaleSources == {<<"peers-old", "README.md">>, <<"peers-ui", "build", "index.md">>}

\* before syncLocalRepos() is called: the first checkout is any of at most
\* MaxFiles files, the others are absent or hold a README
InitSync ==
    /\ RunStart(REPOS, [i \in 1..Len(REPOS) |-> AbsentTree], EmptyFS, {}, 1, NoOverride)
    /\ \E first \in Checkouts(MaxFiles) :
          \E rest \in [2..Len(LocalREPOS) ->
                          {AbsentCheckout, [exists |-> TRUE, files |-> {<<"README.md">>}]}] :
              localRepos = [i \in 1..Len(LocalREPOS) |-> IF i = 1 THEN first ELSE rest[i]]
    /\ sources \in {{}, StaleSources}
    /\ syncPc = "NotStarted"
    /\ syncIdx = 1
    /\ FixOff

\* await fse.emptyDir(SOURCES_ROOT)
SyncEmptyDir ==
    /\ syncPc = "NotStarted"
    /\ sources' = {}
    /\ syncPc' = "Copying"
    /\ UNCHANGED <<localRepos, syncIdx, runVars, fixVars>>

\* if (!await fse.pathExists(sourceRepoPath)) { console.warn(...); continue; }
SyncSkip ==
    /\ syncPc = "Copying" /\ syncIdx <= Len(LocalREPOS)
    /\ ~localRepos[syncIdx].exists
    /\ syncIdx' = syncIdx + 1
    /\ UNCHANGED <<localRepos, sources, syncPc, runVars, fixVars>>

\* await fse.copy(sourceRepoPath, destPath, {filter})
SyncCopy ==
    /\ syncPc = "Copying" /\ syncIdx <= Len(LocalREPOS)
    /\ localRepos[syncIdx].exists
    /\ sources' = sources \cup
                    {DestPath(LocalREPOS[syncIdx]) \o p : p \in FilteredCopy(localRepos[syncIdx].files)}
    /\ syncIdx' = syncIdx + 1
    /\ UNCHANGED <<localRepos, syncPc, runVars, fixVars>>

\* fse.emptyDir rejects: syncLocalRepos().catch, process.exit(1)
SyncEmptyDirFails ==
    /\ syncPc = "NotStarted"
    /\ \E keep \in SUBSET sources : sources' = keep
    /\ syncPc' = "Failed"
    /\ UNCHANGED <<localRepos, syncIdx, runVars, fixVars>>

\* fse.copy rejects part-way: syncLocalRepos().catch, process.exit(1)
SyncCopyFails ==
    /\ syncPc = "Copying" /\ syncIdx <= Len(LocalREPOS)
    /\ localRepos[syncIdx].exists
    /\ \E done \in SUBSET FilteredCopy(localRepos[syncIdx].files) :
          sources' = sources \cup {DestPath(LocalREPOS[syncIdx]) \o p : p \in done}
    /\ syncPc' = "Failed"
    /\ UNCHANGED <<localRepos, syncIdx, runVars, fixVars>>

\* the loop is over: syncLocalRepos() resolves
SyncFinish ==
    /\ syncPc = "Copying" /\ syncIdx > Len(LocalREPOS)
    /\ syncPc' = "Done"
    /\ UNCHANGED <<localRepos, sources, syncIdx, runVars, fixVars>>

NextSync ==
    \/ SyncEmptyDir
    \/ SyncSkip
    \/ SyncCopy
    \/ SyncEmptyDirFails
    \/ SyncCopyFails
    \/ SyncFinish

SpecSync == InitSync /\ [][NextSync]_vars

\* the directories whose content the sync is to leave out
SkippedDirs ==
    {<<"node_modules">>, <<".git">>, <<"build">>, <<"dist">>, <<"coverage">>, <<".next">>,
     <<"ios", "Pods">>, <<"android", ".gradle">>}

\* whether the file at path lies inside a directory of SkippedDirs
InsideSkippedDir(path) ==
    \E d \in SkippedDirs :
        \E k \in 1..(Len(path) - Len(d)) : SubSeq(path, k, k + Len(d) - 1) = d

\* C29: after a sync that completed, the snapshot of every local repository that
\* exists holds, at the same relative paths, exactly the files of the repository
\* that lie outside the node_modules, .git, build, dist, coverage, .next,
\* ios/Pods and android/.gradle directories.
C29_SnapshotAllButSkippedDirs ==
    syncPc = "Done" =>
        \A i \in 1..Len(LocalREPOS) :
            localRepos[i].exists =>
                \A p \in localRepos[i].files :
                    (<<LocalREPOS[i].repo[Len(LocalREPOS[i].repo)]>> \o p \in sources)
                        <=> ~InsideSkippedDir(p)

\* ------------------------------------------------------------------------
\* fixMdxCodeBlocks
\* ------------------------------------------------------------------------

\* the longest file, in lines
MaxLines == 4

\* the three backticks that open and close a fenced code block
FENCE == "<3 backticks>"

\* the line '```'
FenceLine == <<FENCE>>

\* the line '```js'
JsFenceLine == <<FENCE, "js">>

\* the line '```typescript'
TypescriptFenceLine == <<FENCE, "typescript">>

\* the lines 'import a', '  export b', '', '# Title' and 'text'
ImportLine == <<"import ", "a">>

ExportLine == <<" ", "export ", "b">>

EmptyLine == <<>>

HeadingLine == <<"#", " Title">>

ProseLine == <<"text">>

FixLines == {FenceLine, JsFenceLine, ImportLine, ExportLine, EmptyLine, HeadingLine, ProseLine}

\* line.startsWith(prefix)
StartsWith(line, prefix) == Len(line) > 0 /\ line[1] = prefix

\* line.trim()
RECURSIVE TrimLine(_)
TrimLine(line) ==
    IF line = <<>> THEN <<>>
    ELSE IF Head(line) = " " THEN TrimLine(Tail(line))
    ELSE IF line[Len(line)] = " " THEN TrimLine(SubSeq(line, 1, Len(line) - 1))
    ELSE line

\* line.trim().startsWith('export ') || line.trim().startsWith('import ')
IsImportExport(line) ==
    StartsWith(TrimLine(line), "export ") \/ StartsWith(TrimLine(line), "import ")

\* lines[j].trim() === '' || lines[j].startsWith('#') || lines[j].startsWith('U+2E3B')
EndsSection(line) ==
    TrimLine(line) = <<>> \/ StartsWith(line, "#") \/ StartsWith(line, "U+2E3B")

\* endIndex of the section that starts at line at, counted from 1
EndIndex(ls, at) ==
    LET stops == {j \in (at + 1)..Len(ls) : EndsSection(ls[j])}
    IN  IF stops = {} THEN Len(ls)
        ELSE (CHOOSE j \in stops : \A k \in stops : j <= k) - 1

\* lines.splice(i, 0, '```typescript'); lines.splice(endIndex + 2, 0, '```')
Wrapped(ls, at) ==
    SubSeq(ls, 1, at - 1) \o <<TypescriptFenceLine>> \o SubSeq(ls, at, EndIndex(ls, at))
        \o <<FenceLine>> \o SubSeq(ls, EndIndex(ls, at) + 1, Len(ls))

\* the files of at most n lines: content.split('\n') has one line at least
FilesOf(n) == UNION {[1..m -> FixLines] : m \in 1..n}

\* before fixMdxCodeBlocks() reads a file of projects/
InitFix ==
    /\ RunStart(REPOS, [r \in 1..Len(REPOS) |-> AbsentTree], EmptyFS, {}, 1, NoOverride)
    /\ SyncOff
    /\ file \in FilesOf(MaxLines)
    /\ content = <<>>
    /\ lines = <<>>
    /\ fixI = 1
    /\ inCodeBlock = FALSE
    /\ modified = FALSE
    /\ fixPc = "NotStarted"

\* const content = await fse.readFile(file, 'utf-8'); const lines = content.split('\n')
FixRead ==
    /\ fixPc = "NotStarted"
    /\ content' = file
    /\ lines' = file
    /\ fixI' = 1
    /\ inCodeBlock' = FALSE
    /\ modified' = FALSE
    /\ fixPc' = "Scanning"
    /\ UNCHANGED <<file, runVars, syncVars>>

\* if (line.startsWith('```')) { inCodeBlock = !inCodeBlock; continue; }
FixFence ==
    /\ fixPc = "Scanning" /\ fixI <= Len(lines)
    /\ StartsWith(lines[fixI], FENCE)
    /\ inCodeBlock' = ~inCodeBlock
    /\ fixI' = fixI + 1
    /\ UNCHANGED <<content, file, lines, modified, fixPc, runVars, syncVars>>

\* an export/import line outside a code block: wrap its section, skip past it
FixWrap ==
    /\ fixPc = "Scanning" /\ fixI <= Len(lines)
    /\ ~StartsWith(lines[fixI], FENCE)
    /\ ~inCodeBlock /\ IsImportExport(lines[fixI])
    /\ lines' = Wrapped(lines, fixI)
    /\ modified' = TRUE
    /\ fixI' = EndIndex(lines, fixI) + 3
    /\ UNCHANGED <<content, file, inCodeBlock, fixPc, runVars, syncVars>>

\* any other line: i++
FixPass ==
    /\ fixPc = "Scanning" /\ fixI <= Len(lines)
    /\ ~StartsWith(lines[fixI], FENCE)
    /\ ~(~inCodeBlock /\ IsImportExport(lines[fixI]))
    /\ fixI' = fixI + 1
    /\ UNCHANGED <<content, file, lines, inCodeBlock, modified, fixPc, runVars, syncVars>>

\* if (modified) await fse.writeFile(file, lines.join('\n'))
FixWrite ==
    /\ fixPc = "Scanning" /\ fixI > Len(lines)
    /\ modified
    /\ file' = lines
    /\ fixPc' = "Done"
    /\ UNCHANGED <<content, lines, fixI, inCodeBlock, modified, runVars, syncVars>>

\* nothing was inserted: the file is left as it is
FixKeep ==
    /\ fixPc = "Scanning" /\ fixI > Len(lines)
    /\ ~modified
    /\ fixPc' = "Done"
    /\ UNCHANGED <<content, file, lines, fixI, inCodeBlock, modified, runVars, syncVars>>

\* fse.writeFile rejects: fixMdxCodeBlocks().catch, process.exit(1)
FixWriteFails ==
    /\ fixPc = "Scanning" /\ fixI > Len(lines)
    /\ modified
    /\ fixPc' = "Failed"
    /\ UNCHANGED <<content, file, lines, fixI, inCodeBlock, modified, runVars, syncVars>>

NextFix ==
    \/ FixRead
    \/ FixFence
    \/ FixWrap
    \/ FixPass
    \/ FixWrite
    \/ FixKeep
    \/ FixWriteFails

SpecFix == InitFix /\ [][NextFix]_vars

\* whether line k of doc follows an odd number of fence lines: it lies in a
\* fenced code block that was opened and not closed before it
InsideFence(doc, k) ==
    /\ ~StartsWith(doc[k], FENCE)
    /\ Cardinality({j \in 1..(k - 1) : StartsWith(doc[j], FENCE)}) % 2 = 1

\* the lines of doc that lie in a fenced code block, in order
RECURSIVE FencedLines(_, _)
FencedLines(doc, k) ==
    IF k > Len(doc) THEN <<>>
    ELSE (IF InsideFence(doc, k) THEN <<doc[k]>> ELSE <<>>) \o FencedLines(doc, k + 1)

\* whether the lines of a occur in b, in order
RECURSIVE IsSubsequence(_, _)
IsSubsequence(a, b) ==
    IF a = <<>> THEN TRUE
    ELSE IF b = <<>> THEN FALSE
    ELSE IF Head(a) = Head(b) THEN IsSubsequence(Tail(a), Tail(b))
    ELSE IsSubsequence(a, Tail(b))

\* C30: after fixMdxCodeBlocks has processed a file, every line of it whose
\* trimmed text starts with 'export ' or 'import ' lies in a fenced code block,
\* and the lines that were in a fenced code block are all there, unchanged.
C30_ImportsFencedFencedKept ==
    fixPc = "Done" =>
        /\ \A k \in 1..Len(file) : IsImportExport(file[k]) => InsideFence(file, k)
        /\ IsSubsequence(FencedLines(content, 1), file)

====
